---- MODULE Spec2Model ----
(***************************************************************************)
(* SendRawEthernetFrame.py: a straight-line script that creates an         *)
(* AF_PACKET/SOCK_RAW socket, binds it to interface_name, assigns the      *)
(* frame literals and sends their concatenation with one s.send call.      *)
(* Every run of the script is one caller (one process); several callers    *)
(* run the script, each with its own hand-edited literals.  An exception   *)
(* raised by socket(), bind() or send() is not caught anywhere in the      *)
(* script, so it ends the run; the end of a run (the last line, or an      *)
(* uncaught exception) ends the process, which gives up its descriptor.    *)
(***************************************************************************)
EXTENDS Integers, Sequences, FiniteSets, TLC

\* Bounds of the model.
NumCallers == 2
MaxPayloadLen == 2

Callers == 1..NumCallers

\* ------------------------------------------------------------------------
\* The host: interface names a run may name, and those that exist.
InterfaceNames == {"eth0", "eth1", "nonexistent0"}
ExistingInterfaces == {"eth0", "eth1"}
NoInterface == "-"

\* ------------------------------------------------------------------------
\* The literals of the script (bytes are numbers 0..255).
PayloadCount == 100

Repeat(b, n) == [i \in 1..n |-> b]

DefaultMac == <<1, 2, 3, 4, 5, 6>>
BroadcastMac == <<255, 255, 255, 255, 255, 255>>
DefaultEthertype == <<8, 1>>
ExampleCrc32 == <<1, 2, 3, 4>>

\* The file as shipped.
ShippedLiteralsIPv4 ==
    [ src_mac_addr |-> DefaultMac,
      dst_mac_addr |-> DefaultMac,
      ethertype    |-> <<8, 0>>,
      payload      |-> Repeat(80, PayloadCount),
      crc32        |-> << >> ]

ShippedLiterals ==
    [ src_mac_addr |-> DefaultMac,
      dst_mac_addr |-> DefaultMac,
      ethertype    |-> DefaultEthertype,
      payload      |-> Repeat(80, PayloadCount),
      crc32        |-> << >> ]

\* Hand edits of the literals: the two edits the comments of the script
\* suggest (broadcast destination, a CRC-32 value), and edits that leave a
\* field with another length than an Ethernet II header has.
MacChoices == {DefaultMac, BroadcastMac, <<10, 11, 12>>, <<1, 2, 3, 4, 5, 6, 7>>}
SrcChoices == {DefaultMac, <<2, 0, 0, 0, 0, 9>>, <<10, 11, 12>>, <<1, 2, 3, 4, 5, 6, 7>>}
EthertypeChoices == {DefaultEthertype, <<8>>, <<8, 1, 0>>}
PayloadChoices ==
    {Repeat(b, n) : b \in {80, 0}, n \in 0..MaxPayloadLen}
        \cup {Repeat(80, PayloadCount), Repeat(80, 1500)}
Crc32Choices == {<< >>, ExampleCrc32, <<1, 2>>}

AllEditions ==
    [ src_mac_addr : SrcChoices,
      dst_mac_addr : MacChoices,
      ethertype    : EthertypeChoices,
      payload      : PayloadChoices,
      crc32        : Crc32Choices ]

Editions ==
    { ShippedLiterals,
      [ShippedLiterals EXCEPT !.dst_mac_addr = BroadcastMac,
                              !.src_mac_addr = <<2, 0, 0, 0, 0, 9>>,
                              !.payload = Repeat(0, MaxPayloadLen),
                              !.crc32 = ExampleCrc32],
      [ShippedLiterals EXCEPT !.dst_mac_addr = <<10, 11, 12>>,
                              !.payload = << >>] }

\* ------------------------------------------------------------------------
\* The argument of s.send: the concatenation, with no check of any length.
BuildSrcFirst(dst, src, et, pl, crc) == src \o dst \o et \o pl \o crc

Take(q, n) == SubSeq(q, 1, IF Len(q) < n THEN Len(q) ELSE n)

BuildTruncating(dst, src, et, pl, crc) ==
    Take(dst, 6) \o Take(src, 6) \o Take(et, 2) \o pl \o crc

Build(dst, src, et, pl, crc) == dst \o src \o et \o pl \o crc

\* ------------------------------------------------------------------------
VARIABLES
    pc,              \* each caller's position in the script
    privileged,      \* whether the caller may create raw sockets (root)
    interface_name,  \* line 59
    s,               \* the socket: "none", "unbound", "bound", "closed"
    bound,           \* the interface s is bound to
    src_mac_addr, dst_mac_addr, ethertype, payload, crc32,
    error,           \* the uncaught exception that ended the run, if any
    calls,           \* the socket calls the run has made, in order
    handed,          \* the arguments given to s.send, in order
    wire             \* per interface, the units transmitted, in order

vars == << pc, privileged, interface_name, s, bound,
           src_mac_addr, dst_mac_addr, ethertype, payload, crc32,
           error, calls, handed, wire >>

NoError == [call |-> "none", errno |-> "none"]

Init ==
    /\ pc = [c \in Callers |-> "interface_name"]
    /\ privileged \in [Callers -> BOOLEAN]
    /\ interface_name = [c \in Callers |-> NoInterface]
    /\ s = [c \in Callers |-> "none"]
    /\ bound = [c \in Callers |-> NoInterface]
    /\ src_mac_addr = [c \in Callers |-> << >>]
    /\ dst_mac_addr = [c \in Callers |-> << >>]
    /\ ethertype = [c \in Callers |-> << >>]
    /\ payload = [c \in Callers |-> << >>]
    /\ crc32 = [c \in Callers |-> << >>]
    /\ error = [c \in Callers |-> NoError]
    /\ calls = [c \in Callers |-> << >>]
    /\ handed = [c \in Callers |-> << >>]
    /\ wire = [i \in ExistingInterfaces |-> << >>]

\* The end of the process: its descriptor, if it has one, is given up.
LeakedAtExit(st) == st

ReleasedAtExit(st) == IF st = "none" THEN "none" ELSE "closed"

\* One unit put on the wire of an interface.
TransmitInPieces(w, iface, c, bytes) ==
    [w EXCEPT ![iface] = @ \o << [by |-> c, bytes |-> Take(bytes, 14)],
                                 [by |-> c, bytes |-> SubSeq(bytes, 15, Len(bytes))] >>]

Transmit(w, iface, c, bytes) ==
    [w EXCEPT ![iface] = Append(@, [by |-> c, bytes |-> bytes])]

\* line 59
AssignInterfaceName(c) ==
    /\ pc[c] = "interface_name"
    /\ \E n \in InterfaceNames : interface_name' = [interface_name EXCEPT ![c] = n]
    /\ pc' = [pc EXCEPT ![c] = "socket"]
    /\ UNCHANGED << privileged, s, bound, src_mac_addr, dst_mac_addr, ethertype,
                    payload, crc32, error, calls, handed, wire >>

\* line 61, the socket is created
SocketOk(c) ==
    /\ pc[c] = "socket"
    /\ privileged[c]
    /\ s' = [s EXCEPT ![c] = "unbound"]
    /\ calls' = [calls EXCEPT ![c] = Append(@, "socket")]
    /\ pc' = [pc EXCEPT ![c] = "bind"]
    /\ UNCHANGED << privileged, interface_name, bound, src_mac_addr, dst_mac_addr,
                    ethertype, payload, crc32, error, handed, wire >>

\* line 61, socket() raises: "[Errno 1] Operation not permitted" without the
\* privilege, and otherwise for want of a resource
SocketFail(c) ==
    /\ pc[c] = "socket"
    /\ error' = [error EXCEPT ![c] =
                    [call |-> "socket",
                     errno |-> IF privileged[c] THEN "EMFILE" ELSE "EPERM"]]
    /\ calls' = [calls EXCEPT ![c] = Append(@, "socket")]
    /\ s' = [s EXCEPT ![c] = ReleasedAtExit(@)]
    /\ pc' = [pc EXCEPT ![c] = "done"]
    /\ UNCHANGED << privileged, interface_name, bound, src_mac_addr, dst_mac_addr,
                    ethertype, payload, crc32, handed, wire >>

\* line 66, the socket is bound to the named interface
BindOkToEth0(c) ==
    /\ pc[c] = "bind"
    /\ interface_name[c] \in ExistingInterfaces
    /\ s' = [s EXCEPT ![c] = "bound"]
    /\ bound' = [bound EXCEPT ![c] = "eth0"]
    /\ calls' = [calls EXCEPT ![c] = Append(@, "bind")]
    /\ pc' = [pc EXCEPT ![c] = "literals"]
    /\ UNCHANGED << privileged, interface_name, src_mac_addr, dst_mac_addr,
                    ethertype, payload, crc32, error, handed, wire >>

BindOk(c) ==
    /\ pc[c] = "bind"
    /\ interface_name[c] \in ExistingInterfaces
    /\ s' = [s EXCEPT ![c] = "bound"]
    /\ bound' = [bound EXCEPT ![c] = interface_name[c]]
    /\ calls' = [calls EXCEPT ![c] = Append(@, "bind")]
    /\ pc' = [pc EXCEPT ![c] = "literals"]
    /\ UNCHANGED << privileged, interface_name, src_mac_addr, dst_mac_addr,
                    ethertype, payload, crc32, error, handed, wire >>

\* line 66, bind() raises: "No such device" for a name that is no
\* interface, and otherwise another errno
BindFailSwallowed(c) ==
    /\ pc[c] = "bind"
    /\ error' = [error EXCEPT ![c] =
                    [call |-> "bind",
                     errno |-> IF interface_name[c] \in ExistingInterfaces
                               THEN "EINVAL" ELSE "ENODEV"]]
    /\ calls' = [calls EXCEPT ![c] = Append(@, "bind")]
    /\ pc' = [pc EXCEPT ![c] = "literals"]
    /\ UNCHANGED << privileged, interface_name, s, bound, src_mac_addr, dst_mac_addr,
                    ethertype, payload, crc32, handed, wire >>

BindFail(c) ==
    /\ pc[c] = "bind"
    /\ error' = [error EXCEPT ![c] =
                    [call |-> "bind",
                     errno |-> IF interface_name[c] \in ExistingInterfaces
                               THEN "EINVAL" ELSE "ENODEV"]]
    /\ calls' = [calls EXCEPT ![c] = Append(@, "bind")]
    /\ s' = [s EXCEPT ![c] = ReleasedAtExit(@)]
    /\ pc' = [pc EXCEPT ![c] = "done"]
    /\ UNCHANGED << privileged, interface_name, bound, src_mac_addr, dst_mac_addr,
                    ethertype, payload, crc32, handed, wire >>

\* lines 69-78, the literals as the file has them
AssignLiterals(c, editions) ==
    /\ pc[c] = "literals"
    /\ \E e \in editions :
          /\ src_mac_addr' = [src_mac_addr EXCEPT ![c] = e.src_mac_addr]
          /\ dst_mac_addr' = [dst_mac_addr EXCEPT ![c] = e.dst_mac_addr]
          /\ ethertype' = [ethertype EXCEPT ![c] = e.ethertype]
          /\ payload' = [payload EXCEPT ![c] = e.payload]
          /\ crc32' = [crc32 EXCEPT ![c] = e.crc32]
    /\ pc' = [pc EXCEPT ![c] = "send"]
    /\ UNCHANGED << privileged, interface_name, s, bound, error, calls, handed, wire >>

\* The frame line 80 builds from the caller's literals.
Frame(c) ==
    Build(dst_mac_addr[c], src_mac_addr[c], ethertype[c], payload[c], crc32[c])

\* line 80, the frame is transmitted; the script ends
SendOkAgain(c) ==
    /\ pc[c] = "send"
    /\ Len(handed[c]) < 2
    /\ handed' = [handed EXCEPT ![c] = Append(@, Frame(c))]
    /\ calls' = [calls EXCEPT ![c] = Append(@, "send")]
    /\ wire' = Transmit(wire, bound[c], c, Frame(c))
    /\ UNCHANGED << pc, s, privileged, interface_name, bound, src_mac_addr,
                    dst_mac_addr, ethertype, payload, crc32, error >>

SendOk(c) ==
    /\ pc[c] = "send"
    /\ handed' = [handed EXCEPT ![c] = Append(@, Frame(c))]
    /\ calls' = [calls EXCEPT ![c] = Append(@, "send")]
    /\ wire' = Transmit(wire, bound[c], c, Frame(c))
    /\ s' = [s EXCEPT ![c] = ReleasedAtExit(@)]
    /\ pc' = [pc EXCEPT ![c] = "done"]
    /\ UNCHANGED << privileged, interface_name, bound, src_mac_addr, dst_mac_addr,
                    ethertype, payload, crc32, error >>

\* line 80, send() raises (the interface is down, the frame is longer than
\* the interface takes): nothing is transmitted
SendFailSwallowed(c) ==
    /\ pc[c] = "send"
    /\ handed' = [handed EXCEPT ![c] = Append(@, Frame(c))]
    /\ calls' = [calls EXCEPT ![c] = Append(@, "send")]
    /\ s' = [s EXCEPT ![c] = ReleasedAtExit(@)]
    /\ pc' = [pc EXCEPT ![c] = "done"]
    /\ UNCHANGED << privileged, interface_name, bound, src_mac_addr, dst_mac_addr,
                    ethertype, payload, crc32, error, wire >>

SendFail(c) ==
    /\ pc[c] = "send"
    /\ handed' = [handed EXCEPT ![c] = Append(@, Frame(c))]
    /\ calls' = [calls EXCEPT ![c] = Append(@, "send")]
    /\ error' = [error EXCEPT ![c] = [call |-> "send", errno |-> "ENETDOWN"]]
    /\ s' = [s EXCEPT ![c] = ReleasedAtExit(@)]
    /\ pc' = [pc EXCEPT ![c] = "done"]
    /\ UNCHANGED << privileged, interface_name, bound, src_mac_addr, dst_mac_addr,
                    ethertype, payload, crc32, wire >>

\* One step of one run of the script.
Step(c, editions) ==
    \/ AssignInterfaceName(c)
    \/ SocketOk(c)
    \/ SocketFail(c)
    \/ BindOk(c)
    \/ BindFail(c)
    \/ AssignLiterals(c, editions)
    \/ SendOk(c)
    \/ SendFail(c)

\* Independent callers, each running the script.
Next == \E c \in Callers : Step(c, Editions)

Spec == Init /\ [][Next]_vars

\* One run of the script, over every edit of its literals.
NextBuild == Step(1, AllEditions)

BuildSpec == Init /\ [][NextBuild]_vars

\* ------------------------------------------------------------------------
\* What the properties below speak of.

Called(c, name) == \E k \in 1..Len(calls[c]) : calls[c][k] = name

CountCalls(c, name) == Cardinality({k \in 1..Len(calls[c]) : calls[c][k] = name})

\* The places on the wire of the units caller c transmitted.
UnitsBy(c) ==
    {p \in UNION {{<<i, k>> : k \in 1..Len(wire[i])} : i \in ExistingInterfaces} :
        wire[p[1]][p[2]].by = c}

\* The handle of section 4.2: Open from a successful bind to the release.
Handle(c) == IF s[c] = "bound" THEN "Open" ELSE "Closed"

\* Lines 69-78 have run.
Assigned(c) == pc[c] = "send" \/ handed[c] # << >>

Literals(c) ==
    [ src_mac_addr |-> src_mac_addr[c],
      dst_mac_addr |-> dst_mac_addr[c],
      ethertype    |-> ethertype[c],
      payload      |-> payload[c],
      crc32        |-> crc32[c] ]

WellFormed(c) ==
    /\ Len(dst_mac_addr[c]) = 6
    /\ Len(src_mac_addr[c]) = 6
    /\ Len(ethertype[c]) = 2
    /\ Len(payload[c]) <= 1500
    /\ Len(crc32[c]) \in {0, 4}

Malformed(c) ==
    \/ Len(dst_mac_addr[c]) # 6
    \/ Len(src_mac_addr[c]) # 6
    \/ Len(ethertype[c]) # 2
    \/ (crc32[c] # << >> /\ Len(crc32[c]) # 4)

Local(c) ==
    << pc[c], privileged[c], interface_name[c], s[c], bound[c], Literals(c),
       error[c], calls[c], handed[c] >>

\* ------------------------------------------------------------------------
\* C1: for dst and src of 6 bytes, an ethertype of 2 bytes, a payload of
\* 0..1500 bytes and a trailer that is absent or 4 bytes, the frame built
\* has length 14 + len(payload) + (4 if a trailer is given), and splitting
\* it at offsets 6, 12, 14 and 14 + len(payload) gives back dst, src,
\* ethertype, payload and trailer; a broadcast dst gives six leading 0xFF.
C1_BuildLayout ==
    \A c \in Callers :
        (handed[c] # << >> /\ WellFormed(c)) =>
            LET f == handed[c][1]
                n == Len(payload[c])
            IN  /\ Len(f) = 14 + n + (IF crc32[c] # << >> THEN 4 ELSE 0)
                /\ SubSeq(f, 1, 6) = dst_mac_addr[c]
                /\ SubSeq(f, 7, 12) = src_mac_addr[c]
                /\ SubSeq(f, 13, 14) = ethertype[c]
                /\ SubSeq(f, 15, 14 + n) = payload[c]
                /\ SubSeq(f, 15 + n, Len(f)) = crc32[c]
                /\ (dst_mac_addr[c] = BroadcastMac =>
                        \A i \in 1..6 : f[i] = 255)

C1_Witness ==
    \E c \in Callers :
        /\ handed[c] # << >>
        /\ WellFormed(c)
        /\ dst_mac_addr[c] = BroadcastMac
        /\ src_mac_addr[c] # dst_mac_addr[c]
        /\ Len(payload[c]) = 1500
        /\ Len(crc32[c]) = 4

C5_AllOrNothing ==
    \A c \in Callers :
        /\ \A p \in UnitsBy(c) :
              /\ handed[c] # << >>
              /\ wire[p[1]][p[2]].bytes = handed[c][1]
              /\ wire[p[1]][p[2]].bytes = Frame(c)
        /\ handed[c] # << >> =>
              \/ error[c] = NoError /\ Cardinality(UnitsBy(c)) = 1
              \/ error[c].call = "send" /\ UnitsBy(c) = {}

C5_Witness ==
    \E c, d \in Callers :
        /\ error[c] = NoError
        /\ \E p \in UnitsBy(c) : Len(wire[p[1]][p[2]].bytes) = 114
        /\ error[d].call = "send"
        /\ handed[d] # << >>

\* C6: open fails with PermissionDenied (EPERM from socket) without the
\* privilege, with InterfaceNotFound (ENODEV from bind) for a name that is
\* no interface, and with another bind error otherwise; each failure ends
\* the run at once, with the handle Closed, nothing retried and no frame
\* handed to send or transmitted.
C6_OpenFailures ==
    \A c \in Callers :
        /\ (Called(c, "socket") /\ ~privileged[c]) =>
              error[c] = [call |-> "socket", errno |-> "EPERM"]
        /\ (Called(c, "bind") /\ interface_name[c] \notin ExistingInterfaces) =>
              error[c] = [call |-> "bind", errno |-> "ENODEV"]
        /\ error[c].call = "bind" =>
              (error[c].errno = "ENODEV"
                  <=> interface_name[c] \notin ExistingInterfaces)
        /\ error[c].errno = "EPERM" => (error[c].call = "socket" /\ ~privileged[c])
        /\ error[c].call \in {"socket", "bind"} =>
              /\ pc[c] = "done"
              /\ Handle(c) = "Closed"
              /\ calls[c][Len(calls[c])] = error[c].call
              /\ CountCalls(c, "socket") = 1
              /\ CountCalls(c, "bind") <= 1
              /\ handed[c] = << >>
              /\ UnitsBy(c) = {}

C6_Witness ==
    \E c, d \in Callers :
        /\ error[c] = [call |-> "socket", errno |-> "EPERM"]
        /\ error[d] = [call |-> "bind", errno |-> "ENODEV"]
        /\ interface_name[d] = "nonexistent0"

\* C7: a send the host rejects fails with an error that ends the run, the
\* script does not try again: a run calls send at most once, and the frames
\* it has on the wire are never more than its sends that returned without
\* error.
C7_NoRetry ==
    \A c \in Callers :
        /\ CountCalls(c, "send") <= 1
        /\ Len(handed[c]) = CountCalls(c, "send")
        /\ (handed[c] # << >> /\ UnitsBy(c) = {}) =>
              error[c] = [call |-> "send", errno |-> "ENETDOWN"]
        /\ error[c].call = "send" => pc[c] = "done"
        /\ Cardinality(UnitsBy(c)) <=
              (IF error[c] = NoError THEN Len(handed[c]) ELSE 0)

C7_Witness ==
    \E c \in Callers :
        /\ error[c].call = "send"
        /\ CountCalls(c, "send") = 1
        /\ UnitsBy(c) = {}
        /\ pc[c] = "done"

\* C8: with the literals as shipped the frame handed to send has 114 bytes:
\* 01 02 03 04 05 06 twice, then 08 01, then 100 bytes 0x50, and no CRC.
C8_ShippedFrame ==
    \A c \in Callers :
        (handed[c] # << >> /\ Literals(c) = ShippedLiterals) =>
            LET f == handed[c][1]
            IN  /\ Len(f) = 114
                /\ SubSeq(f, 1, 6) = <<1, 2, 3, 4, 5, 6>>
                /\ SubSeq(f, 7, 12) = <<1, 2, 3, 4, 5, 6>>
                /\ SubSeq(f, 13, 14) = <<8, 1>>
                /\ \A i \in 15..114 : f[i] = 80

C8_Witness ==
    \E c \in Callers :
        /\ Literals(c) = ShippedLiterals
        /\ handed[c] # << >>
        /\ \E p \in UnitsBy(c) : wire[p[1]][p[2]].bytes = handed[c][1]

\* C9: callers with handles to different interfaces, interleaved in any
\* order: a step of one caller leaves every other caller's state as it was,
\* and every unit on the wire of an interface was sent by a caller that
\* named that interface, with that caller's own bytes.
C9_Independent ==
    /\ [][ \A c, d \in Callers :
              (c # d /\ Local(c)' # Local(c)) => Local(d)' = Local(d) ]_vars
    /\ [](\A i \in ExistingInterfaces : \A k \in 1..Len(wire[i]) :
              LET u == wire[i][k]
              IN  /\ interface_name[u.by] = i
                  /\ u.bytes = Frame(u.by))

C9_Witness ==
    \E c, d \in Callers :
        /\ interface_name[c] = "eth0"
        /\ interface_name[d] = "eth1"
        /\ Len(wire["eth0"]) = 1 /\ wire["eth0"][1].by = c
        /\ Len(wire["eth1"]) = 1 /\ wire["eth1"][1].by = d
        /\ wire["eth0"][1].bytes # wire["eth1"][1].bytes

\* C10: a run calls socket, bind and send in that order; send is called
\* only after bind succeeded; a failure of socket or of bind ends the run
\* with no frame transmitted; a run transmits at most one frame.
C10_FixedOrder ==
    \A c \in Callers :
        /\ Len(calls[c]) <= 3
        /\ calls[c] = SubSeq(<<"socket", "bind", "send">>, 1, Len(calls[c]))
        /\ Called(c, "send") =>
              /\ bound[c] = interface_name[c]
              /\ bound[c] \in ExistingInterfaces
              /\ error[c].call \notin {"socket", "bind"}
        /\ error[c].call \in {"socket", "bind"} =>
              (pc[c] = "done" /\ UnitsBy(c) = {})
        /\ Cardinality(UnitsBy(c)) <= 1
        /\ Len(handed[c]) <= 1

C10_Witness ==
    \E c, d \in Callers :
        /\ calls[c] = <<"socket", "bind", "send">>
        /\ Cardinality(UnitsBy(c)) = 1
        /\ pc[c] = "done"
        /\ calls[d] = <<"socket">>
        /\ pc[d] = "done"

====
